---- MODULE Spec2Model ----
(***************************************************************************)
(* Model of the agent orchestration core of oliver-os/ai-services          *)
(* (services/agent_orchestrator.py): the agent registry, spawn_agent and   *)
(* _execute_agent, spawn_multiple_agents, execute_workflow, the            *)
(* supervision sweep and shutdown.                                         *)
(*                                                                         *)
(* The orchestrator runs on one asyncio event loop.  A coroutine runs      *)
(* without interruption up to its next suspension point, so every action   *)
(* below is the code between two suspension points: acquiring the          *)
(* semaphore, the provider's generate call, asyncio.sleep in the           *)
(* supervision loop and asyncio.gather in spawn_multiple_agents.           *)
(* `await self.spawn_agent(...)` inside execute_workflow awaits a          *)
(* coroutine, not a task: the workflow continues in the same step in which *)
(* the step's generate call returns.                                       *)
(*                                                                         *)
(* The orchestrator is written against LLMProvider.generate, a coroutine:  *)
(* generate is a suspension point for every provider.  The providers of    *)
(* llm_provider.py call blocking clients (requests, the OpenAI client), so *)
(* with them the answer follows the call with no other step in between,    *)
(* which is one of the interleavings the model allows; a provider that     *)
(* awaits its client gives the others.                                     *)
(***************************************************************************)
EXTENDS Integers, Sequences, FiniteSets, TLC

(* ----------------------------- bounds --------------------------------- *)
\* Spec: spawned agent records allocated, clock advances
LifecycleExec == 2
LifecycleTicks == 6
\* Spec: clock advances after which no new request arrives
ArrivalTicks == 1
\* the small admission ceiling a deployment may configure
SmallCeiling == 2
\* SpecWorkflow: execute_workflow calls, records allocated, clock advances
WorkflowRuns == 2
WorkflowExec == 4
WorkflowTicks == 1
\* SpecFanout: spawn_multiple_agents calls, records allocated, clock advances
FanoutGroups == 1
FanoutExec == 3
FanoutTicks == 1
\* SpecPermits: records allocated
PermitsExec == 4
MetricsExec == 2
EchoExec == 2
ParseExec == 1
MaxLines == 4
CacheStep == 100
CacheTicks == 4
MetricsTicks == 3

(* ------------------------- program constants -------------------------- *)
\* self.max_concurrent_agents = 10
DefaultMaxConcurrentAgents == 10
\* asyncio.Semaphore(3)
SemaphorePermits == 3
\* SupervisionMetrics.heartbeat_interval = 30 (seconds)
heartbeat_interval == 30
\* asyncio.sleep(30) in _supervision_loop: the clock is read once per sleep
SupervisionSleep == 30
\* if metrics.missed_heartbeats > 3
MissedHeartbeatLimit == 3
\* self.supervision_enabled = True
supervision_enabled == TRUE
DefaultTTL == 300
DefaultTimeout == 300000
DefaultRetries == 3

VARIABLES
    agents,               \* self.agents: agent id -> AgentDefinition
    llm_providers,        \* self.llm_providers: the provider names registered
    workflows,            \* self.workflows: workflow id -> WorkflowDefinition
    max_concurrent_agents,\* self.max_concurrent_agents
    supervision_running,  \* the _supervision_loop task has been created
    records,              \* every SpawnedAgent object allocated, in order
    tasks,                \* the spawn_agent coroutine that owns records[e]:
                          \* where it is, its locals, what generate did
    spawned_agents,       \* self.spawned_agents: execution id -> object
    supervision_metrics,  \* self.supervision_metrics: execution id -> metrics
    now,                  \* datetime.now(), in seconds
    sweep_due,            \* the supervision loop's sleep(30) has elapsed
    runs,                 \* the execute_workflow calls made so far
    groups,               \* the spawn_multiple_agents calls made so far
    raised,               \* the exception spawn_agent / execute_workflow
                          \* raised in the latest step, if any
    reply,                \* what get_metrics / get_supervision_metrics /
                          \* get_agent returned in the latest step, if any
    cache                 \* the response cache of OllamaProvider.generate:
                          \* whether REDIS_URL is set, the entries, and for
                          \* each key the latest set call

vars == <<agents, llm_providers, workflows, max_concurrent_agents,
          supervision_running, records, tasks, spawned_agents,
          supervision_metrics, now, sweep_due, runs, groups, raised, reply, cache>>

(* Optional[...] values *)
None == <<>>
Some(x) == <<x>>
IsSome(o) == o # <<>>
TheValue(o) == o[1]

EmptyMap == [x \in {} |-> 0]

(* --------------------------- data model ------------------------------- *)
\* a model string "provider/model" is kept as its "/"-separated parts
MinimaxModel == <<"minimax", "MiniMax-M2">>

\* the two AgentDefinition objects of _register_fallback_agents
FallbackAgents ==
    { [id |-> "thought-processor", model |-> MinimaxModel,
       instructions_prompt |-> "Process and analyze thoughts"],
      [id |-> "code-generator", model |-> MinimaxModel,
       instructions_prompt |-> "Generate high-quality code"] }

\* definitions a caller hands to register_agent
RegisterInputs ==
    { [id |-> "echo", model |-> MinimaxModel, instructions_prompt |-> ""],
      [id |-> "echo", model |-> <<"llama3">>,
       instructions_prompt |-> "Repeat the task"] }

\* prompts of direct and fan-out requests
DirectPrompts == { [text |-> "p1", context |-> <<>>],
                   [text |-> "p2", context |-> <<>>] }

\* agent types of direct requests: "echo" is registered only by a caller,
\* "thought-processor" only by initialize()
RequestTypes == {"thought-processor", "echo"}

Requests == [agent_type : RequestTypes, prompt : DirectPrompts]

\* what a provider's generate call can return, and the errors it can raise
Responses == {<<"r1">>, <<"r2">>}
BackendErrors == {"ConnectionError"}

\* the exceptions the log_llm_call of the injected style learner can raise
LogErrors == {"LogError"}

NoProviderError == "No LLM provider available for model"
HealthCheckError == "Agent health check failed - missed too many heartbeats"


(* --------------------- the mutable stores as one value ---------------- *)
\* The part of the orchestrator's state the spawn, workflow and sweep code
\* writes.  The operators below are the code paths, as functions from the
\* stores they find to the stores they leave.
Cur == [records |-> records, tasks |-> tasks,
        spawned_agents |-> spawned_agents,
        supervision_metrics |-> supervision_metrics,
        workflows |-> workflows, runs |-> runs, raised |-> None]

Install(S) ==
    /\ records' = S.records
    /\ tasks' = S.tasks
    /\ spawned_agents' = S.spawned_agents
    /\ supervision_metrics' = S.supervision_metrics
    /\ workflows' = S.workflows
    /\ runs' = S.runs
    /\ raised' = S.raised
    /\ reply' = None
    /\ UNCHANGED cache

(* ------------------------------ providers ----------------------------- *)
\* model_str.split("/")[0] if "/" in model_str else "minimax"
ProviderOf(model) == IF Len(model) > 1 THEN model[1] ELSE "minimax"

\* _get_llm_provider: the provider object that will serve the call
GetLLMProvider(model) ==
    IF ProviderOf(model) \in llm_providers THEN Some(ProviderOf(model))
    ELSE IF "minimax" \in llm_providers THEN Some("minimax")
    ELSE IF "ollama" \in llm_providers THEN Some("ollama")
    ELSE None

(* ------------------------------ spawn_agent --------------------------- *)
\* hash(request.prompt) % 10000: a function of the prompt alone; the prompts
\* the model draws are taken to have distinct hashes
PromptDiscriminator(prompt) == prompt

\* f"{agent_type}-{int(datetime.now().timestamp())}-{hash(prompt) % 10000}"
AgentId(req) == <<req.agent_type, now, PromptDiscriminator(req.prompt)>>

\* sum(1 for a in self.spawned_agents.values() if a.status == RUNNING)
ActiveCount(S) ==
    Cardinality({ id \in DOMAIN S.spawned_agents :
                    S.records[S.spawned_agents[id]].status = "running" })

\* the two checks that open spawn_agent
Admission(S, req) ==
    IF req.agent_type \notin DOMAIN agents THEN "not_found"
    ELSE IF ActiveCount(S) >= max_concurrent_agents THEN "capacity"
    ELSE "admitted"

AdmissionErrors == {"not_found", "capacity"}

\* the metrics entry created before the two checks
SpawnAgentRejected_MetricsFirst(S, req) ==
    [S EXCEPT
       !.raised = Some(Admission(S, req)),
       !.supervision_metrics =
           (AgentId(req) :> [agent_id |-> AgentId(req), status |-> "starting",
                             last_heartbeat |-> now,
                             heartbeat_interval |-> heartbeat_interval,
                             missed_heartbeats |-> 0, tasks_completed |-> 0,
                             tasks_failed |-> 0, health_status |-> "healthy"])
           @@ @]

\* a spawn_agent call that raises from one of the two checks
SpawnAgentRejected(S, req) == [S EXCEPT !.raised = Some(Admission(S, req))]

\* coroutines inside `async with self._concurrent_semaphore`
\* a pool whose permit is not given back when generate raises
PermitsHeld_KeptOnRaise(S) ==
    Cardinality({ e \in 1..Len(S.tasks) :
                     \/ S.tasks[e].pc = "generate"
                     \/ /\ IsSome(S.tasks[e].backend)
                        /\ TheValue(S.tasks[e].backend).kind = "raise"
                        /\ TheValue(S.tasks[e].backend).value # NoProviderError })

PermitsHeld(S) ==
    Cardinality({ e \in 1..Len(S.tasks) : S.tasks[e].pc = "generate" })

\* coroutines queued in the semaphore's acquire
SemWaiters(S) == { e \in 1..Len(S.tasks) : S.tasks[e].pc = "sem_wait" }

\* an acquire that never waits
PermitFree_Always(S) == TRUE

\* asyncio.Semaphore.acquire returns at once only when a permit is free and
\* nobody is queued
PermitFree(S) == PermitsHeld(S) < SemaphorePermits /\ SemWaiters(S) = {}

\* the except branch of spawn_agent
MarkFailed(S, e, msg) ==
    LET id == S.records[e].id IN
    [S EXCEPT
       !.records[e] = [@ EXCEPT !.status = "failed", !.error = Some(msg),
                                !.end_time = Some(now)],
       !.tasks[e] = [@ EXCEPT !.pc = "returned"],
       !.supervision_metrics =
           IF id \in DOMAIN @
           THEN [@ EXCEPT ![id] = [@ EXCEPT !.status = "failed",
                                            !.tasks_failed = @ + 1,
                                            !.health_status = "unhealthy"]]
           ELSE @]

\* the success branch with the status assignment lost
MarkCompleted_StatusKept(S, e, result) ==
    [S EXCEPT
       !.records[e] = [@ EXCEPT !.result = Some(result),
                                !.end_time = Some(now)],
       !.tasks[e] = [@ EXCEPT !.pc = "returned"]]

\* the success branch of spawn_agent
MarkCompleted(S, e, result) ==
    LET id == S.records[e].id IN
    [S EXCEPT
       !.records[e] = [@ EXCEPT !.status = "completed",
                                !.result = Some(result),
                                !.end_time = Some(now),
                                !.duration_ms =
                                    Some((now - S.records[e].start_time) * 1000)],
       !.tasks[e] = [@ EXCEPT !.pc = "returned"],
       !.supervision_metrics =
           IF id \in DOMAIN @
           THEN [@ EXCEPT ![id] = [@ EXCEPT !.status = "completed",
                                            !.tasks_completed = @ + 1]]
           ELSE @]

\* _parse_agent_response: the base result structure
\* the lines a response can have; "[fence]" stands for the three backquotes
\* that open or close a code block, and a fence line is a line that has them
FenceLines == {"[fence]", "[fence]py"}
ParseLines == FenceLines \cup {"x"}

RECURSIVE ExtractCodeFrom(_, _, _, _)
\* the loop of _extract_code over the remaining lines
ExtractCodeFrom(lines, in_code_block, current_code, code_blocks) ==
    IF lines = <<>> THEN code_blocks
    ELSE IF Head(lines) \in FenceLines
         THEN ExtractCodeFrom(Tail(lines), ~in_code_block, <<>>,
                              IF in_code_block
                              THEN Append(code_blocks, current_code)
                              ELSE code_blocks)
         ELSE ExtractCodeFrom(Tail(lines), in_code_block,
                              IF in_code_block
                              THEN Append(current_code, Head(lines))
                              ELSE current_code,
                              code_blocks)

RECURSIVE TotalLines(_)
\* sum(len(block.split('\n')) for block in code_blocks): a block without
\* lines is the empty string, which splits into one line
TotalLines(code_blocks) ==
    IF code_blocks = <<>> THEN 0
    ELSE (IF Len(Head(code_blocks)) = 0 THEN 1 ELSE Len(Head(code_blocks)))
            + TotalLines(Tail(code_blocks))

\* _extract_code; a text is the sequence of its lines, a block the sequence
\* of the lines joined into it
ExtractCode(response) ==
    LET blocks == ExtractCodeFrom(response, FALSE, <<>>, <<>>)
    IN  [blocks |-> blocks, count |-> Len(blocks),
         total_lines |-> TotalLines(blocks)]

\* _parse_agent_response: the base result and, for "code-generator", the
\* extracted code; the other fields per agent type are filters over the
\* lines of the response that read nothing else
ParseAgentResponse(agent_def, response, rec) ==
    LET base == [agent_id |-> agent_def.id, raw_response |-> response,
                 llm_provider |-> rec.llm_provider]
    IN  IF agent_def.id = "code-generator"
        THEN [generated_code |-> ExtractCode(response)] @@ base
        ELSE base

\* spawn_agent from the creation of the record up to the first suspension
\* point of _execute_agent (or up to its return when no provider resolves)
\* a literal piece of text, in the shape of a request prompt
Lit(text) == [text |-> text, context |-> <<>>]

TaskLabel == "Task: "
ResponseContract ==
    "Please provide a structured response following BMAD principles ... Response:"

\* a full prompt that leaves the task out
FullPrompt_NoTask(agent_def, prompt) ==
    << Lit(agent_def.instructions_prompt), Lit(ResponseContract) >>

\* full_prompt: the instructions, "Task: " and the request's prompt, the
\* response contract; a text is the sequence of its pieces
FullPrompt(agent_def, prompt) ==
    << Lit(agent_def.instructions_prompt), Lit(TaskLabel), prompt,
       Lit(ResponseContract) >>

SpawnAgentStart(S, req, owner) ==
    LET id == AgentId(req)
        e == Len(S.records) + 1
        agent_def == agents[req.agent_type]
        provider == GetLLMProvider(agent_def.model)
        rec == [id |-> id, agent_type |-> req.agent_type,
                prompt |-> req.prompt, status |-> "running",
                start_time |-> now, end_time |-> None,
                duration_ms |-> None, result |-> None, error |-> None,
                llm_provider |-> None]
        metrics == [agent_id |-> id, status |-> "running",
                    last_heartbeat |-> now,
                    heartbeat_interval |-> heartbeat_interval,
                    missed_heartbeats |-> 0, tasks_completed |-> 0,
                    tasks_failed |-> 0, health_status |-> "healthy"]
        task == [pc |-> "sem_wait", owner |-> owner, agent_def |-> agent_def,
                 provider |-> provider,
                 full_prompt |-> FullPrompt(agent_def, req.prompt),
                 backend |-> None]
        S1 == [S EXCEPT
                 !.records = Append(@, rec),
                 !.tasks = Append(@, task),
                 !.spawned_agents = (id :> e) @@ @,
                 !.supervision_metrics =
                     IF supervision_enabled THEN (id :> metrics) @@ @ ELSE @]
    IN  IF provider = None
        THEN MarkFailed([S1 EXCEPT !.tasks[e].backend =
                                      Some([kind |-> "raise",
                                            value |-> NoProviderError])],
                        e, NoProviderError)
        ELSE [S1 EXCEPT
                !.records[e].llm_provider = Some(ProviderOf(agent_def.model)),
                !.tasks[e].pc = IF PermitFree(S) THEN "generate"
                                ELSE "sem_wait"]

\* _execute_agent and spawn_agent after generate returned `response`
ExecuteReturned(S, e, response) ==
    MarkCompleted([S EXCEPT !.tasks[e].backend =
                               Some([kind |-> "text", value |-> response])],
                  e, ParseAgentResponse(S.tasks[e].agent_def, response,
                                        S.records[e]))

\* spawn_agent without its except branch: the exception leaves the call
ExecuteRaised_Propagates(S, e, msg) ==
    [S EXCEPT !.tasks[e] = [@ EXCEPT !.pc = "returned",
                                     !.backend = Some([kind |-> "raise",
                                                       value |-> msg])],
              !.raised = Some(msg)]

\* _execute_agent and spawn_agent after generate raised
ExecuteRaised(S, e, msg) ==
    MarkFailed([S EXCEPT !.tasks[e].backend =
                            Some([kind |-> "raise", value |-> msg])],
               e, msg)

\* _execute_agent and spawn_agent after generate returned `response` and
\* self.style_learner.log_llm_call raised: the call stands inside the try of
\* _execute_agent, before the response is parsed
ExecuteLogRaised(S, e, response, msg) ==
    MarkFailed([S EXCEPT !.tasks[e].backend =
                            Some([kind |-> "text", value |-> response])],
               e, msg)

\* the task that runs spawn_agent is cancelled at the await it is suspended
\* in: CancelledError is a BaseException, so neither `except Exception` of
\* _execute_agent nor that of spawn_agent catches it; `async with` gives the
\* permit back, the record and its metrics entry stay as they are
ExecuteCancelled(S, e) == [S EXCEPT !.tasks[e].pc = "cancelled"]

(* ---------------------------- execute_workflow ------------------------ *)
\* f"{workflow_id}-step-{idx}"
StepId(workflow_id, idx) == <<workflow_id, idx>>

\* the workflows section of the configuration document the model loads:
\* "chain" is A -> B -> C; the last step of "broken" names a dependency that
\* no step of the run produces
ConfigWorkflows ==
    ("chain" :>
        [steps |-> << [id |-> StepId("chain", 0), agent |-> "thought-processor",
                       prompt |-> "sA", dependencies |-> <<>>,
                       timeout |-> 20000, retries |-> 2],
                      [id |-> StepId("chain", 1), agent |-> "code-generator",
                       prompt |-> "sB",
                       dependencies |-> <<StepId("chain", 0)>>,
                       timeout |-> 20000, retries |-> 2],
                      [id |-> StepId("chain", 2), agent |-> "thought-processor",
                       prompt |-> "sC",
                       dependencies |-> <<StepId("chain", 1)>>,
                       timeout |-> 20000, retries |-> 2] >>,
         status |-> "idle"]) @@
    ("broken" :>
        [steps |-> << [id |-> StepId("broken", 0), agent |-> "code-generator",
                       prompt |-> "sA", dependencies |-> <<>>,
                       timeout |-> DefaultTimeout,
                       retries |-> DefaultRetries],
                      [id |-> StepId("broken", 1), agent |-> "code-generator",
                       prompt |-> "sB",
                       dependencies |-> <<StepId("broken", 0),
                                          StepId("broken", 7)>>,
                       timeout |-> DefaultTimeout,
                       retries |-> DefaultRetries] >>,
         status |-> "idle"])

\* workflow ids a caller passes to execute_workflow
WorkflowIds == {"chain", "broken", "absent"}

\* `dep_id in step_results`
HasStepResult(step_results, dep_id) ==
    \E i \in 1..Len(step_results) : step_results[i].sid = dep_id

\* the loop without its dependency check
UnmetDependencies_None(step, step_results) == {}

\* the first dependency of the step that has no stored result
UnmetDependencies(step, step_results) ==
    { i \in 1..Len(step.dependencies) :
        ~HasStepResult(step_results, step.dependencies[i]) }

Minimum(set) == CHOOSE m \in set : \A n \in set : m <= n

\* the step's own prompt, with no context of earlier steps
StepPrompt_NoContext(step, step_results) ==
    [text |-> step.prompt, context |-> <<>>]

\* step_prompt: step.prompt, followed by "Step {sid}: {res}" for every entry
\* of step_results when there is one
StepPrompt(step, step_results) ==
    [text |-> step.prompt, context |-> step_results]

RECURSIVE SumDurations(_)
\* sum(r.get("duration_ms", 0) for r in results.values())
SumDurations(results) ==
    IF results = <<>> THEN 0
    ELSE TheValue(results[1].duration_ms) + SumDurations(Tail(results))

\* the except branch of execute_workflow: the exception is caught, the call
\* returns the failed result
WorkflowFailed(S, r, error) ==
    LET run == S.runs[r] IN
    [S EXCEPT
       !.workflows[run.workflow_id].status = "failed",
       !.raised = None,
       !.runs[r] = [@ EXCEPT !.pc = "returned",
                             !.ret = Some([status |-> "failed",
                                           error |-> Some(error),
                                           results |-> run.results,
                                           duration_ms |-> None])]]

\* the return after the loop, with workflow.status left as it was
WorkflowCompleted_StatusLeft(S, r) ==
    LET run == S.runs[r] IN
    [S EXCEPT
       !.runs[r] = [@ EXCEPT !.pc = "returned",
                             !.ret = Some([status |-> "completed",
                                           error |-> None,
                                           results |-> run.results,
                                           duration_ms |->
                                               Some(SumDurations(run.results))])]]

\* the return after the loop
WorkflowCompleted(S, r) ==
    LET run == S.runs[r] IN
    [S EXCEPT
       !.workflows[run.workflow_id].status = "completed",
       !.runs[r] = [@ EXCEPT !.pc = "returned",
                             !.ret = Some([status |-> "completed",
                                           error |-> None,
                                           results |-> run.results,
                                           duration_ms |->
                                               Some(SumDurations(run.results))])]]

\* step_results[step.id] = ...; results[step.id] = {...}
RecordStep(S, r, e) ==
    LET run == S.runs[r]
        step == S.workflows[run.workflow_id].steps[run.idx]
        rec == S.records[e]
    IN  [S EXCEPT
           !.runs[r].step_results =
               Append(@, [sid |-> step.id, res |-> rec.result]),
           !.runs[r].results =
               Append(@, [step_id |-> step.id, agent_id |-> rec.id,
                          status |-> rec.status, result |-> rec.result,
                          duration_ms |-> rec.duration_ms])]

StepFailedError(step, rec) ==
    [kind |-> "step_failed", step |-> step.id, detail |-> rec.error]

\* one iteration of the loop over workflow.steps, from the dependency check
\* to the suspension of the step's spawn_agent call
RunStep(S, r) ==
    LET run == S.runs[r]
        step == S.workflows[run.workflow_id].steps[run.idx]
        unmet == UnmetDependencies(step, run.step_results)
        req == [agent_type |-> step.agent,
                prompt |-> StepPrompt(step, run.step_results)]
        e == Len(S.records) + 1
        owner == [kind |-> "workflow", of |-> r, slot |-> run.idx]
    IN  IF unmet # {}
        THEN WorkflowFailed(S, r,
                 [kind |-> "dependency",
                  step |-> step.dependencies[Minimum(unmet)],
                  detail |-> None])
        ELSE IF Admission(S, req) # "admitted"
        THEN WorkflowFailed(SpawnAgentRejected(S, req), r,
                 [kind |-> Admission(S, req), step |-> <<>>, detail |-> None])
        ELSE LET S1 == [SpawnAgentStart(S, req, owner) EXCEPT !.runs[r].exec = e]
             IN  IF S1.tasks[e].pc = "returned"
                 THEN WorkflowFailed(RecordStep(S1, r, e), r,
                          StepFailedError(step, S1.records[e]))
                 ELSE S1

\* the loop without the check of the step's status
AfterStep_IgnoresFailure(S, r, e) ==
    LET S1 == RecordStep(S, r, e)
        run == S1.runs[r]
        steps == S1.workflows[run.workflow_id].steps
    IN  IF run.idx = Len(steps)
        THEN WorkflowCompleted(S1, r)
        ELSE RunStep([S1 EXCEPT !.runs[r].idx = @ + 1], r)

\* a loop that spawns a failed step again while it has retries declared
AfterStep_Retries(S, r, e) ==
    LET S1 == RecordStep(S, r, e)
        run == S1.runs[r]
        steps == S1.workflows[run.workflow_id].steps
    IN  IF S1.records[e].status = "failed"
        THEN IF steps[run.idx].retries > 0
             THEN RunStep(S1, r)
             ELSE WorkflowFailed(S1, r,
                      StepFailedError(steps[run.idx], S1.records[e]))
        ELSE IF run.idx = Len(steps)
        THEN WorkflowCompleted(S1, r)
        ELSE RunStep([S1 EXCEPT !.runs[r].idx = @ + 1], r)

\* execute_workflow after the step's spawn_agent call returned records[e]
AfterStep(S, r, e) ==
    LET S1 == RecordStep(S, r, e)
        run == S1.runs[r]
        steps == S1.workflows[run.workflow_id].steps
    IN  IF S1.records[e].status = "failed"
        THEN WorkflowFailed(S1, r, StepFailedError(steps[run.idx], S1.records[e]))
        ELSE IF run.idx = Len(steps)
        THEN WorkflowCompleted(S1, r)
        ELSE RunStep([S1 EXCEPT !.runs[r].idx = @ + 1], r)

\* what the caller of the spawn_agent call that owns records[e] does when the
\* call returns: nothing for a direct call or a gathered task, the rest of
\* the loop for a workflow step
Resume(S, e) ==
    IF S.tasks[e].owner.kind = "workflow"
    THEN AfterStep(S, S.tasks[e].owner.of, e)
    ELSE S

\* execute_workflow marking the workflows before it looks its id up
ExecuteWorkflowNotFound_MarksRunning(S) ==
    [S EXCEPT !.raised = Some("workflow_not_found"),
              !.workflows = [w \in DOMAIN @ |-> [@[w] EXCEPT !.status = "running"]]]

\* execute_workflow with an id that is not in self.workflows: ValueError
ExecuteWorkflowNotFound(S) == [S EXCEPT !.raised = Some("workflow_not_found")]

\* execute_workflow from its entry to the first suspension
ExecuteWorkflowStart(S, workflow_id) ==
    LET r == Len(S.runs) + 1
        run == [workflow_id |-> workflow_id, idx |-> 1, step_results |-> <<>>,
                results |-> <<>>, pc |-> "awaiting", exec |-> 0, ret |-> None]
        S1 == [S EXCEPT !.workflows[workflow_id].status = "running",
                        !.runs = Append(@, run)]
    IN  IF S1.workflows[workflow_id].steps = <<>>
        THEN WorkflowCompleted(S1, r)
        ELSE RunStep(S1, r)

(* ------------------------- supervision and shutdown ------------------- *)
\* a sweep that takes every heartbeat for stale
HeartbeatStale_Always(metrics) == TRUE

\* (now - metrics.last_heartbeat).total_seconds() > heartbeat_interval * 2
HeartbeatStale(metrics) ==
    now - metrics.last_heartbeat > metrics.heartbeat_interval * 2

\* the metrics entries the sweep counts a missed heartbeat for
SweepMissed(S) ==
    { id \in DOMAIN S.supervision_metrics :
        /\ S.supervision_metrics[id].status = "running"
        /\ HeartbeatStale(S.supervision_metrics[id]) }

\* the entries whose count exceeds the limit after the increment
SweepUnhealthy(S) ==
    { id \in SweepMissed(S) :
        S.supervision_metrics[id].missed_heartbeats + 1 > MissedHeartbeatLimit }

\* _check_agent_health
CheckAgentHealth(S) ==
    LET failing == { S.spawned_agents[id] :
                       id \in SweepUnhealthy(S) \cap DOMAIN S.spawned_agents }
    IN  [S EXCEPT
           !.supervision_metrics =
               [id \in DOMAIN @ |->
                  IF id \in SweepMissed(S)
                  THEN [@[id] EXCEPT
                          !.missed_heartbeats = @ + 1,
                          !.health_status = IF id \in SweepUnhealthy(S)
                                            THEN "unhealthy" ELSE "degraded"]
                  ELSE @[id]],
           !.records =
               [e \in DOMAIN @ |->
                  IF e \in failing
                  THEN [@[e] EXCEPT !.status = "failed",
                                    !.error = Some(HealthCheckError)]
                  ELSE @[e]]]

\* shutdown: every stored record that is RUNNING becomes STOPPED
ShutdownStores(S) ==
    LET running == { S.spawned_agents[id] : id \in
                       { i \in DOMAIN S.spawned_agents :
                           S.records[S.spawned_agents[i]].status = "running" } }
    IN  [S EXCEPT
           !.records = [e \in DOMAIN @ |->
                          IF e \in running
                          THEN [@[e] EXCEPT !.status = "stopped"]
                          ELSE @[e]]]

(* -------------------------------- Init -------------------------------- *)
\* AgentOrchestrator.__init__; max_concurrent_agents is an attribute a
\* deployment sets, 10 unless it does
\* the orchestrator after __init__, in a process with or without REDIS_URL
ConstructedIn(ceiling, redis_url) ==
    /\ agents = EmptyMap
    /\ llm_providers = {}
    /\ workflows = EmptyMap
    /\ max_concurrent_agents = ceiling
    /\ supervision_running = FALSE
    /\ records = <<>>
    /\ tasks = <<>>
    /\ spawned_agents = EmptyMap
    /\ supervision_metrics = EmptyMap
    /\ now = 0
    /\ sweep_due = FALSE
    /\ runs = <<>>
    /\ groups = <<>>
    /\ raised = None
    /\ reply = None
    /\ cache = [redis_url |-> redis_url, data |-> EmptyMap,
                last_set |-> EmptyMap]

Constructed(ceiling) == ConstructedIn(ceiling, FALSE)

(* ------------------------------- actions ------------------------------ *)
RegisterAll(defs, registry) ==
    [id \in DOMAIN registry \cup { d.id : d \in defs } |->
        IF \E d \in defs : d.id = id
        THEN CHOOSE d \in defs : d.id = id
        ELSE registry[id]]

\* the agents section of the configuration document the model loads
ConfigAgents ==
    { [id |-> "thought-processor", model |-> MinimaxModel,
       instructions_prompt |-> "Analyze the thought"],
      [id |-> "code-generator", model |-> <<"openai", "gpt-4">>,
       instructions_prompt |-> ""] }

\* initialize(): providers, agent definitions, workflows, supervision loop
InitializeInputs ==
    { [config |-> "missing", minimax_api_key |-> FALSE],
      [config |-> "parsed", minimax_api_key |-> TRUE],
      [config |-> "unparseable", minimax_api_key |-> FALSE],
      [config |-> "no_agents", minimax_api_key |-> TRUE] }

\* the definitions _load_agent_definitions registers: the fallback set when
\* the file is missing or json.load raises, else the entries of the
\* document's "agents" section ("no_agents": a document that parses and has
\* no such section, or an empty one)
LoadedAgents(config) ==
    CASE config = "missing"     -> FallbackAgents
      [] config = "unparseable" -> FallbackAgents
      [] config = "parsed"      -> ConfigAgents
      [] config = "no_agents"   -> {}

\* the workflows _load_workflows stores: none unless the document parses
LoadedWorkflows(config) ==
    IF config = "parsed" THEN ConfigWorkflows ELSE EmptyMap

Initialize(config, minimax_api_key) ==
    /\ llm_providers' = llm_providers \cup {"ollama"} \cup
                           (IF minimax_api_key THEN {"minimax"} ELSE {})
    /\ agents' = RegisterAll(LoadedAgents(config), agents)
    /\ workflows' = LoadedWorkflows(config) @@ workflows
    /\ supervision_running' = supervision_enabled
    /\ sweep_due' = FALSE
    /\ raised' = None
    /\ reply' = None
    /\ UNCHANGED cache
    /\ UNCHANGED <<max_concurrent_agents, records, tasks, spawned_agents,
                   supervision_metrics, now, runs, groups>>

\* register_agent(agent)
\* a registration that keeps the definition already stored under the id
RegisterAgent_FirstWins(agent) ==
    /\ agents' = agents @@ (agent.id :> agent)
    /\ raised' = None
    /\ reply' = None
    /\ UNCHANGED cache
    /\ UNCHANGED <<llm_providers, workflows, max_concurrent_agents,
                   supervision_running, records, tasks, spawned_agents,
                   supervision_metrics, now, sweep_due, runs, groups>>

RegisterAgent(agent) ==
    /\ agents' = (agent.id :> agent) @@ agents
    /\ raised' = None
    /\ reply' = None
    /\ UNCHANGED cache
    /\ UNCHANGED <<llm_providers, workflows, max_concurrent_agents,
                   supervision_running, records, tasks, spawned_agents,
                   supervision_metrics, now, sweep_due, runs, groups>>

Frame == UNCHANGED <<agents, llm_providers, max_concurrent_agents,
                     supervision_running, now, sweep_due>>

\* a direct call of spawn_agent(request), up to its first suspension or raise
SpawnAgent(req) ==
    /\ IF Admission(Cur, req) = "admitted"
       THEN LET S == SpawnAgentStart(Cur, req,
                          [kind |-> "direct", of |-> 0, slot |-> 0])
            IN  Install(S)
       ELSE Install(SpawnAgentRejected(Cur, req))
    /\ Frame /\ UNCHANGED groups

\* a coroutine queued at the semaphore gets a permit and calls generate
SemaphoreAcquire(e) ==
    /\ e \in SemWaiters(Cur)
    /\ PermitsHeld(Cur) < SemaphorePermits
    /\ \A w \in SemWaiters(Cur) : e <= w
    /\ tasks' = [tasks EXCEPT ![e].pc = "generate"]
    /\ raised' = None
    /\ reply' = None
    /\ UNCHANGED cache
    /\ UNCHANGED <<agents, llm_providers, workflows, max_concurrent_agents,
                   supervision_running, records, spawned_agents,
                   supervision_metrics, now, sweep_due, runs, groups>>

\* generate returns `response` to the coroutine that owns records[e]
GenerateReturns(e, response) ==
    /\ e \in 1..Len(tasks) /\ tasks[e].pc = "generate"
    /\ Install(Resume(ExecuteReturned(Cur, e, response), e))
    /\ Frame /\ UNCHANGED groups

\* generate raises an Exception in the coroutine that owns records[e]
GenerateRaises(e, msg) ==
    /\ e \in 1..Len(tasks) /\ tasks[e].pc = "generate"
    /\ Install(Resume(ExecuteRaised(Cur, e, msg), e))
    /\ Frame /\ UNCHANGED groups

\* generate returns `response` and the style learner's log_llm_call raises
GenerateReturnsLogRaises(e, response, msg) ==
    /\ e \in 1..Len(tasks) /\ tasks[e].pc = "generate"
    /\ Install(Resume(ExecuteLogRaised(Cur, e, response, msg), e))
    /\ Frame /\ UNCHANGED groups

\* execute_workflow(workflow_id, ...), up to its first suspension or return
ExecuteWorkflow(workflow_id) ==
    /\ IF workflow_id \notin DOMAIN workflows
       THEN Install(ExecuteWorkflowNotFound(Cur))
       ELSE Install(ExecuteWorkflowStart(Cur, workflow_id))
    /\ Frame /\ UNCHANGED groups

\* the request lists the model hands to spawn_multiple_agents: one with an
\* agent type no configuration registers, one of three distinct requests, one
\* that repeats a request
GroupRequestLists ==
    LET P1 == [text |-> "p1", context |-> <<>>]
        P2 == [text |-> "p2", context |-> <<>>]
    IN  { << [agent_type |-> "thought-processor", prompt |-> P1],
             [agent_type |-> "pattern-recognizer", prompt |-> P1],
             [agent_type |-> "thought-processor", prompt |-> P2] >>,
          << [agent_type |-> "thought-processor", prompt |-> P1],
             [agent_type |-> "thought-processor", prompt |-> P2],
             [agent_type |-> "code-generator", prompt |-> P1] >>,
          << [agent_type |-> "thought-processor", prompt |-> P1],
             [agent_type |-> "thought-processor", prompt |-> P1],
             [agent_type |-> "thought-processor", prompt |-> P2] >> }

\* gather(..., return_exceptions=True) stores the exception of a task as its
\* result, and cancels the remaining tasks instead
GroupBranchRaised_AbortsGroup(G, g, j, error) ==
    [G EXCEPT ![g].slots =
        [k \in 1..Len(@) |->
           IF k = j THEN [kind |-> "raised", exec |-> 0, error |-> error]
           ELSE IF @[k].kind = "pending"
           THEN [kind |-> "cancelled", exec |-> 0, error |-> "CancelledError"]
           ELSE @[k]]]

\* gather(..., return_exceptions=True) stores the exception of a task as its
\* result; the other tasks are not touched
GroupBranchRaised(G, g, j, error) ==
    [G EXCEPT ![g].slots[j] = [kind |-> "raised", exec |-> 0, error |-> error]]

\* the suspended spawn_agent tasks of a group
GroupSuspended(g) ==
    { j \in 1..Len(groups[g].slots) :
        /\ groups[g].slots[j].kind = "exec"
        /\ tasks[groups[g].slots[j].exec].pc \in {"generate", "sem_wait"} }

\* spawn_multiple_agents(requests): the tasks are created, gather suspends
SpawnMultipleAgents(requests) ==
    /\ groups' = Append(groups,
           [requests |-> requests,
            slots |-> [j \in 1..Len(requests) |->
                         [kind |-> "pending", exec |-> 0, error |-> ""]],
            pc |-> "gathering", ret |-> None])
    /\ raised' = None
    /\ reply' = None
    /\ UNCHANGED cache
    /\ UNCHANGED <<agents, llm_providers, workflows, max_concurrent_agents,
                   supervision_running, records, tasks, spawned_agents,
                   supervision_metrics, now, sweep_due, runs>>

\* the event loop runs the next task of the group up to its first suspension
GroupTaskStart(g) ==
    /\ g \in 1..Len(groups)
    /\ \E j \in 1..Len(groups[g].slots) :
         /\ groups[g].slots[j].kind = "pending"
         /\ \A k \in 1..(j - 1) : groups[g].slots[k].kind # "pending"
         /\ LET req == groups[g].requests[j] IN
            IF Admission(Cur, req) = "admitted"
            THEN /\ LET S == SpawnAgentStart(Cur, req,
                                   [kind |-> "group", of |-> g, slot |-> j])
                    IN  Install(S)
                 /\ groups' = [groups EXCEPT ![g].slots[j] =
                                 [kind |-> "exec", exec |-> Len(records) + 1,
                                  error |-> ""]]
            ELSE /\ Install(SpawnAgentRejected(Cur, req))
                 /\ groups' = GroupBranchRaised(groups, g, j,
                                                Admission(Cur, req))
    /\ Frame

\* the records spawn_multiple_agents returns: the gathered results that are
\* SpawnedAgent objects
SuccessfulAgents(slots) ==
    SelectSeq([j \in 1..Len(slots) |-> slots[j]], LAMBDA s : s.kind = "exec")

\* gather has every result: spawn_multiple_agents returns
SpawnMultipleReturns(g) ==
    /\ g \in 1..Len(groups)
    /\ groups[g].pc = "gathering"
    /\ \A j \in 1..Len(groups[g].slots) :
         \/ groups[g].slots[j].kind \in {"raised", "cancelled"}
         \/ /\ groups[g].slots[j].kind = "exec"
            /\ tasks[groups[g].slots[j].exec].pc = "returned"
    /\ groups' = [groups EXCEPT
                    ![g].pc = "returned",
                    ![g].ret = Some([j \in 1..Len(SuccessfulAgents(groups[g].slots)) |->
                                       SuccessfulAgents(groups[g].slots)[j].exec])]
    /\ raised' = None
    /\ reply' = None
    /\ UNCHANGED cache
    /\ UNCHANGED <<agents, llm_providers, workflows, max_concurrent_agents,
                   supervision_running, records, tasks, spawned_agents,
                   supervision_metrics, now, sweep_due, runs>>

\* one task of the group is cancelled while it is suspended; gather stores
\* the CancelledError as the task's result
CancelGroupTask(g, j) ==
    /\ g \in 1..Len(groups)
    /\ groups[g].pc = "gathering"
    /\ j \in GroupSuspended(g)
    /\ Install(ExecuteCancelled(Cur, groups[g].slots[j].exec))
    /\ groups' = [groups EXCEPT ![g].slots[j] =
                    [@ EXCEPT !.kind = "cancelled", !.error = "CancelledError"]]
    /\ Frame

\* the caller's task is cancelled while spawn_multiple_agents waits in gather:
\* gather cancels every task, the except asyncio.CancelledError branch waits
\* for them, takes CancelledError as the result of each and the call returns
CancelGroup(g) ==
    /\ g \in 1..Len(groups)
    /\ groups[g].pc = "gathering"
    /\ tasks' = [e \in 1..Len(tasks) |->
                   IF \E j \in GroupSuspended(g) : groups[g].slots[j].exec = e
                   THEN ExecuteCancelled(Cur, e).tasks[e]
                   ELSE tasks[e]]
    /\ groups' = [groups EXCEPT
                    ![g].slots = [j \in 1..Len(@) |->
                                    [@[j] EXCEPT !.kind = "cancelled",
                                                 !.error = "CancelledError"]],
                    ![g].pc = "returned",
                    ![g].ret = Some(<<>>)]
    /\ raised' = None
    /\ reply' = None
    /\ UNCHANGED cache
    /\ UNCHANGED <<agents, llm_providers, workflows, max_concurrent_agents,
                   supervision_running, records, spawned_agents,
                   supervision_metrics, now, sweep_due, runs>>

\* the supervision loop wakes from its sleep and runs _check_agent_health
SupervisionSweep ==
    /\ supervision_running
    /\ sweep_due
    /\ Install(CheckAgentHealth(Cur))
    /\ sweep_due' = FALSE
    /\ UNCHANGED <<agents, llm_providers, max_concurrent_agents,
                   supervision_running, now, groups>>

\* shutdown()
Shutdown ==
    /\ Install(ShutdownStores(Cur))
    /\ Frame /\ UNCHANGED groups

\* sum(1 for a in self.spawned_agents.values() if a.status == status)
CountAgents(S, status) ==
    Cardinality({id \in DOMAIN S.spawned_agents :
                    S.records[S.spawned_agents[id]].status = status})

\* sum(1 for w in self.workflows.values() if w.status == status)
CountWorkflows(S, status) ==
    Cardinality({w \in DOMAIN S.workflows : S.workflows[w].status = status})

\* sum(1 for m in self.supervision_metrics.values() if m.health_status == h)
CountHealth(S, h) ==
    Cardinality({id \in DOMAIN S.supervision_metrics :
                    S.supervision_metrics[id].health_status = h})

RECURSIVE TotalDuration(_, _)
\* sum(a.duration_ms or 0 for a in ... if a.duration_ms is not None), over
\* the records stored under ids
TotalDuration(S, ids) ==
    IF ids = {} THEN 0
    ELSE LET id == CHOOSE i \in ids : TRUE
             a  == S.records[S.spawned_agents[id]]
         IN  (IF IsSome(a.duration_ms) THEN TheValue(a.duration_ms) ELSE 0)
                + TotalDuration(S, ids \ {id})

\* the quotient num / den of a true division, kept as the pair
Quotient(num, den) == [num |-> num, den |-> den]

\* total_duration / len(self.spawned_agents) if self.spawned_agents else 0
AvgDuration(S) ==
    LET total == TotalDuration(S, DOMAIN S.spawned_agents)
        n     == Cardinality(DOMAIN S.spawned_agents)
    IN  IF n # 0 THEN Quotient(total, n) ELSE Quotient(0, 1)

\* the dictionary get_metrics returns
MetricsReport(S) ==
    LET total     == Cardinality(DOMAIN S.spawned_agents)
        active    == CountAgents(S, "running")
        completed == CountAgents(S, "completed")
        failed    == CountAgents(S, "failed")
    IN  [agents |-> [total |-> total, active |-> active,
                     completed |-> completed, failed |-> failed,
                     idle |-> total - active - completed - failed],
         workflows |-> [total |-> Cardinality(DOMAIN S.workflows),
                        running |-> CountWorkflows(S, "running"),
                        completed |-> CountWorkflows(S, "completed"),
                        failed |-> CountWorkflows(S, "failed")],
         performance |->
            [avg_duration_ms |-> AvgDuration(S),
             total_duration_ms |-> TotalDuration(S, DOMAIN S.spawned_agents)],
         supervision |->
            [agents_monitored |-> Cardinality(DOMAIN S.supervision_metrics),
             healthy |-> CountHealth(S, "healthy"),
             degraded |-> CountHealth(S, "degraded"),
             unhealthy |-> CountHealth(S, "unhealthy")]]

\* the dictionary get_supervision_metrics returns: asdict of one entry, {}
\* for an id without one, every entry when no id is given
SupervisionReport(S, agent_id) ==
    IF IsSome(agent_id)
    THEN IF TheValue(agent_id) \in DOMAIN S.supervision_metrics
         THEN S.supervision_metrics[TheValue(agent_id)]
         ELSE EmptyMap
    ELSE S.supervision_metrics

\* an execution id no spawn produces
UnknownExecutionId == <<"thought-processor", 0 - 1, [text |-> "p1", context |-> <<>>]>>

\* the arguments get_supervision_metrics is called with
SupervisionQueries ==
    {None} \cup {Some(id) : id \in DOMAIN supervision_metrics
                                     \cup {UnknownExecutionId}}

\* what a call returned: the report of get_metrics, the one entry or the
\* dictionary of entries of get_supervision_metrics
Reply(call, report, entry, entries) ==
    [call |-> call, report |-> report, entry |-> entry, entries |-> entries]

(* --------------------------- response cache --------------------------- *)
\* the model name of the one OllamaProvider the orchestrator creates
OllamaModel == "llama3.1:8b"

\* the prompts and the texts of the cached calls; "" is the text of a reply
\* without a response field
CachePrompts == {"p1", "p2"}
OllamaTexts == {"r1", "r2", ""}

\* sha256 of f"ollama:{self.model}:{full_prompt}", the digest taken to be
\* one-to-one
CacheKey(model, full_prompt) == <<"ollama", ":", model, ":", full_prompt>>

CacheKeys == { CacheKey(OllamaModel, prompt) : prompt \in CachePrompts }

Without(data, key) == [k \in DOMAIN data \ {key} |-> data[k]]

\* an in-memory get that serves an entry whatever its expiry time
InMemoryGet_NeverExpires(data, key, t) ==
    IF key \notin DOMAIN data
    THEN [data |-> data, value |-> None]
    ELSE [data |-> data, value |-> Some(data[key].val)]

\* InMemoryTTLCache.get at time t: the value and the entries afterwards
InMemoryGet(data, key, t) ==
    IF key \notin DOMAIN data
    THEN [data |-> data, value |-> None]
    ELSE IF t > data[key].exp
         THEN [data |-> Without(data, key), value |-> None]
         ELSE [data |-> data, value |-> Some(data[key].val)]

\* InMemoryTTLCache.set and RedisCache.set (setex) at time t
CacheStore(data, key, value, ttl_seconds, t) ==
    (key :> [exp |-> t + ttl_seconds, val |-> value]) @@ data

\* RedisCache.get at time t: the server drops a key ttl seconds after setex,
\* and an empty value comes back as None
RedisGet(data, key, t) ==
    IF key \notin DOMAIN data
    THEN [data |-> data, value |-> None]
    ELSE IF t >= data[key].exp
         THEN [data |-> Without(data, key), value |-> None]
         ELSE [data |-> data,
               value |-> IF data[key].val = "" THEN None
                         ELSE Some(data[key].val)]

\* default_cache(): the Redis client when REDIS_URL is set, else a new and
\* empty InMemoryTTLCache
DefaultCache(c) ==
    IF c.redis_url THEN [kind |-> "redis", data |-> c.data]
    ELSE [kind |-> "memory", data |-> EmptyMap]

CacheGetOf(kind, data, key, t) ==
    IF kind = "redis" THEN RedisGet(data, key, t)
    ELSE InMemoryGet(data, key, t)

\* the cache lookup of one generate call: the cache it used after the get,
\* and the text served, if any (`if cached`)
GenerateLookup(prompt) ==
    LET c == DefaultCache(cache)
        g == CacheGetOf(c.kind, c.data, CacheKey(OllamaModel, prompt), now)
    IN  [kind |-> c.kind, data |-> g.data, value |-> g.value,
         hit |-> IsSome(g.value) /\ g.value # Some("")]

\* OllamaProvider.generate returning: the cached text, or the text of the
\* backend's reply, which it stores for 300 seconds
OllamaGenerate(prompt, text) ==
    LET key == CacheKey(OllamaModel, prompt)
        l == GenerateLookup(prompt)
    IN  /\ reply' = Some(Reply("generate",
                               [prompt |-> prompt, served_from_cache |-> l.hit],
                               IF l.hit THEN l.value ELSE Some(text),
                               EmptyMap))
        /\ cache' =
              IF l.kind = "memory" THEN cache
              ELSE IF l.hit THEN [cache EXCEPT !.data = l.data]
              ELSE [cache EXCEPT
                      !.data = CacheStore(l.data, key, text, DefaultTTL, now),
                      !.last_set = (key :> [val |-> text, at |-> now,
                                            ttl_seconds |-> DefaultTTL]) @@ @]
        /\ raised' = None
        /\ UNCHANGED <<agents, llm_providers, workflows, max_concurrent_agents,
                       supervision_running, records, tasks, spawned_agents,
                       supervision_metrics, now, sweep_due, runs, groups>>

\* OllamaProvider.generate raising: no cached text, and the request fails or
\* the status is not 200
OllamaGenerateRaises(prompt, msg) ==
    LET l == GenerateLookup(prompt)
    IN  /\ ~l.hit
        /\ raised' = Some(msg)
        /\ reply' = None
        /\ cache' = IF l.kind = "memory" THEN cache
                    ELSE [cache EXCEPT !.data = l.data]
        /\ UNCHANGED <<agents, llm_providers, workflows, max_concurrent_agents,
                       supervision_running, records, tasks, spawned_agents,
                       supervision_metrics, now, sweep_due, runs, groups>>

\* set and get called on one InMemoryTTLCache object that a caller keeps
CacheSet(key, value) ==
    /\ ~cache.redis_url
    /\ cache' = [cache EXCEPT
                   !.data = CacheStore(@, key, value, DefaultTTL, now),
                   !.last_set = (key :> [val |-> value, at |-> now,
                                         ttl_seconds |-> DefaultTTL]) @@ @]
    /\ raised' = None
    /\ reply' = None
    /\ UNCHANGED <<agents, llm_providers, workflows, max_concurrent_agents,
                   supervision_running, records, tasks, spawned_agents,
                   supervision_metrics, now, sweep_due, runs, groups>>

CacheGet(key) ==
    LET g == InMemoryGet(cache.data, key, now)
    IN  /\ ~cache.redis_url
        /\ cache' = [cache EXCEPT !.data = g.data]
        /\ reply' = Some(Reply("cache_get", [key |-> key], g.value, EmptyMap))
        /\ raised' = None
        /\ UNCHANGED <<agents, llm_providers, workflows, max_concurrent_agents,
                       supervision_running, records, tasks, spawned_agents,
                       supervision_metrics, now, sweep_due, runs, groups>>

\* time.time() moves on
Elapse ==
    /\ now' = now + CacheStep
    /\ raised' = None
    /\ reply' = None
    /\ UNCHANGED <<agents, llm_providers, workflows, max_concurrent_agents,
                   supervision_running, records, tasks, spawned_agents,
                   supervision_metrics, sweep_due, runs, groups, cache>>

\* definitions handed to register_agent, under fresh ids and under ids
\* initialize() registers
RegistryInputs ==
    RegisterInputs \cup
    { [id |-> "thought-processor", model |-> <<"llama3">>,
       instructions_prompt |-> ""],
      [id |-> "summarizer", model |-> MinimaxModel,
       instructions_prompt |-> "Summarize"] }

\* the ids get_agent is asked for
RegistryIds == { d.id : d \in RegistryInputs \cup FallbackAgents }
                  \cup {"no-such-agent"}

\* self.agents.get(agent_id)
GetAgentResult(registry, agent_id) ==
    IF agent_id \in DOMAIN registry THEN registry[agent_id] ELSE None

GetAgent(agent_id) ==
    /\ reply' = Some(Reply("get_agent", EmptyMap,
                           GetAgentResult(agents, agent_id), EmptyMap))
    /\ raised' = None
    /\ UNCHANGED cache
    /\ UNCHANGED <<agents, llm_providers, workflows, max_concurrent_agents,
                   supervision_running, records, tasks, spawned_agents,
                   supervision_metrics, now, sweep_due, runs, groups>>

\* a get_metrics call that also empties the supervision store
GetMetrics_ClearsSupervision ==
    /\ reply' = Some(Reply("get_metrics", MetricsReport(Cur), EmptyMap, EmptyMap))
    /\ raised' = None
    /\ UNCHANGED cache
    /\ supervision_metrics' = EmptyMap
    /\ UNCHANGED <<agents, llm_providers, workflows, max_concurrent_agents,
                   supervision_running, records, tasks, spawned_agents,
                   now, sweep_due, runs, groups>>

GetMetrics ==
    /\ reply' = Some(Reply("get_metrics", MetricsReport(Cur), EmptyMap, EmptyMap))
    /\ raised' = None
    /\ UNCHANGED cache
    /\ UNCHANGED <<agents, llm_providers, workflows, max_concurrent_agents,
                   supervision_running, records, tasks, spawned_agents,
                   supervision_metrics, now, sweep_due, runs, groups>>

GetSupervisionMetrics(agent_id) ==
    /\ reply' = Some(IF IsSome(agent_id)
                      THEN Reply("get_supervision_metrics", EmptyMap,
                                 SupervisionReport(Cur, agent_id), EmptyMap)
                      ELSE Reply("get_supervision_metrics", EmptyMap,
                                 EmptyMap, SupervisionReport(Cur, agent_id)))
    /\ raised' = None
    /\ UNCHANGED cache
    /\ UNCHANGED <<agents, llm_providers, workflows, max_concurrent_agents,
                   supervision_running, records, tasks, spawned_agents,
                   supervision_metrics, now, sweep_due, runs, groups>>

\* the clock advances by one sleep of the supervision loop; a running loop
\* wakes and sweeps before the next advance
Tick ==
    /\ ~(supervision_running /\ sweep_due)
    /\ now' = now + SupervisionSleep
    /\ sweep_due' = TRUE
    /\ raised' = None
    /\ reply' = None
    /\ UNCHANGED cache
    /\ UNCHANGED <<agents, llm_providers, workflows, max_concurrent_agents,
                   supervision_running, records, tasks, spawned_agents,
                   supervision_metrics, runs, groups>>

(* --------------------------- specifications --------------------------- *)
\* The callers' behaviour in every specification: the registry is filled
\* (register_agent by hand, or initialize() once on a fresh orchestrator)
\* before the first request is served.
Startup == records = <<>> /\ runs = <<>> /\ groups = <<>>

\* Spec: spawn_agent calls by direct callers, the backend's answers, the
\* supervision loop, shutdown and the clock, with a ceiling that the bounded
\* number of records reaches
Init == Constructed(SmallCeiling)

Next ==
    \/ \E in \in InitializeInputs :
          /\ Startup /\ agents = EmptyMap /\ in.config = "missing"
          /\ Initialize(in.config, in.minimax_api_key)
    \/ \E agent \in RegisterInputs :
          Startup /\ ~supervision_running /\ RegisterAgent(agent)
    \/ \E req \in Requests :
          /\ now <= ArrivalTicks * SupervisionSleep
          /\ SpawnAgent(req) /\ Len(records') <= LifecycleExec
    \/ \E e \in 1..LifecycleExec, response \in Responses :
          GenerateReturns(e, response)
    \/ \E e \in 1..LifecycleExec, msg \in BackendErrors :
          GenerateRaises(e, msg)
    \/ \E e \in 1..LifecycleExec, response \in Responses, msg \in LogErrors :
          GenerateReturnsLogRaises(e, response, msg)
    \/ SupervisionSweep
    \/ Shutdown
    \/ Tick /\ now' <= LifecycleTicks * SupervisionSleep

Spec == Init /\ [][Next]_vars

\* SpecWorkflow: execute_workflow calls on an orchestrator initialized from a
\* parsed configuration, with the default ceiling
InitWorkflow == Constructed(DefaultMaxConcurrentAgents)

NextWorkflow ==
    \/ \E in \in InitializeInputs :
          /\ Startup /\ agents = EmptyMap /\ in.config = "parsed"
          /\ Initialize(in.config, in.minimax_api_key)
    \/ \E workflow_id \in WorkflowIds :
          /\ ExecuteWorkflow(workflow_id)
          /\ Len(runs') <= WorkflowRuns /\ Len(records') <= WorkflowExec
    \/ \E e \in 1..WorkflowExec, response \in Responses :
          GenerateReturns(e, response) /\ Len(records') <= WorkflowExec
    \/ \E e \in 1..WorkflowExec, msg \in BackendErrors :
          GenerateRaises(e, msg)
    \/ SupervisionSweep
    \/ Shutdown
    \/ Tick /\ now' <= WorkflowTicks * SupervisionSleep

SpecWorkflow == InitWorkflow /\ [][NextWorkflow]_vars

\* SpecFanout: spawn_multiple_agents calls under the small ceiling
InitFanout == Constructed(SmallCeiling)

NextFanout ==
    \/ \E in \in InitializeInputs :
          /\ Startup /\ agents = EmptyMap /\ in.config = "missing"
          /\ Initialize(in.config, in.minimax_api_key)
    \/ \E requests \in GroupRequestLists :
          SpawnMultipleAgents(requests) /\ Len(groups') <= FanoutGroups
    \/ \E g \in 1..FanoutGroups :
          GroupTaskStart(g) /\ Len(records') <= FanoutExec
    \/ \E e \in 1..FanoutExec, response \in Responses :
          GenerateReturns(e, response)
    \/ \E e \in 1..FanoutExec, msg \in BackendErrors :
          GenerateRaises(e, msg)
    \/ \E g \in 1..FanoutGroups : SpawnMultipleReturns(g)
    \/ \E g \in 1..FanoutGroups, j \in 1..FanoutExec : CancelGroupTask(g, j)
    \/ \E g \in 1..FanoutGroups : CancelGroup(g)
    \/ Shutdown
    \/ Tick /\ now' <= FanoutTicks * SupervisionSleep

SpecFanout == InitFanout /\ [][NextFanout]_vars

\* SpecPermits: more spawn_agent calls in flight than the semaphore has
\* permits, under the default ceiling
InitPermits == Constructed(DefaultMaxConcurrentAgents)

NextPermits ==
    \/ \E in \in InitializeInputs :
          /\ Startup /\ agents = EmptyMap /\ in.config = "missing"
          /\ Initialize(in.config, in.minimax_api_key)
    \/ \E req \in Requests :
          SpawnAgent(req) /\ Len(records') <= PermitsExec
    \/ \E e \in 1..PermitsExec : SemaphoreAcquire(e)
    \/ \E e \in 1..PermitsExec, response \in Responses :
          GenerateReturns(e, response)
    \/ \E e \in 1..PermitsExec, msg \in BackendErrors :
          GenerateRaises(e, msg)

SpecPermits == InitPermits /\ [][NextPermits]_vars

\* The permit pool with the scheduling the event loop gives: a waiter at the
\* head of the queue is resumed once a permit is free, and (the claim's
\* hypothesis) every backend call in flight returns or raises.
LiveRequests == { req \in Requests : req.agent_type = "thought-processor" }
LiveResponses == { <<"r1">> }

NextLive ==
    \/ \E in \in InitializeInputs :
          /\ Startup /\ agents = EmptyMap /\ in.config = "missing"
          /\ Initialize(in.config, in.minimax_api_key)
    \/ \E req \in LiveRequests :
          SpawnAgent(req) /\ Len(records') <= PermitsExec
    \/ \E e \in 1..PermitsExec : SemaphoreAcquire(e)
    \/ \E e \in 1..PermitsExec, response \in LiveResponses :
          GenerateReturns(e, response)
    \/ \E e \in 1..PermitsExec, msg \in BackendErrors :
          GenerateRaises(e, msg)

LivePermits ==
    /\ InitPermits /\ [][NextLive]_vars
    /\ \A e \in 1..PermitsExec :
          /\ WF_vars(SemaphoreAcquire(e))
          /\ WF_vars((\E response \in LiveResponses :
                         GenerateReturns(e, response))
                        \/ (\E msg \in BackendErrors : GenerateRaises(e, msg)))

\* Hung backend calls under supervision: a call either returns before the
\* first sweep or never returns, while the supervision loop keeps sweeping.
HungArrivals == 2
HungTicks == 9

InitHung == Constructed(DefaultMaxConcurrentAgents)

NextHung ==
    \/ \E in \in InitializeInputs :
          /\ Startup /\ agents = EmptyMap /\ in.config = "missing"
          /\ Initialize(in.config, in.minimax_api_key)
    \/ \E req \in LiveRequests :
          /\ now <= HungArrivals * SupervisionSleep
          /\ SpawnAgent(req) /\ Len(records') <= PermitsExec
    \/ \E e \in 1..PermitsExec : SemaphoreAcquire(e)
    \/ \E e \in 1..PermitsExec, response \in LiveResponses :
          now = 0 /\ GenerateReturns(e, response)
    \/ SupervisionSweep
    \/ Tick /\ now' <= HungTicks * SupervisionSleep

SpecHung == InitHung /\ [][NextHung]_vars

\* Direct spawns, sweeps and shutdown with the two read-only reports called
\* between their steps.
InitMetrics == Constructed(DefaultMaxConcurrentAgents)

NextMetrics ==
    \/ \E in \in InitializeInputs :
          /\ Startup /\ agents = EmptyMap /\ in.config = "missing"
          /\ Initialize(in.config, in.minimax_api_key)
    \/ \E req \in Requests :
          /\ req.agent_type = "thought-processor"
          /\ SpawnAgent(req) /\ Len(records') <= MetricsExec
    \/ \E e \in 1..MetricsExec, response \in Responses :
          GenerateReturns(e, response)
    \/ \E e \in 1..MetricsExec, msg \in BackendErrors :
          GenerateRaises(e, msg)
    \/ SupervisionSweep
    \/ Shutdown
    \/ Tick /\ now' <= MetricsTicks * SupervisionSleep
    \/ GetMetrics
    \/ \E agent_id \in SupervisionQueries : GetSupervisionMetrics(agent_id)

SpecMetrics == InitMetrics /\ [][NextMetrics]_vars

\* The definition registry alone: initialize(), register_agent and get_agent
\* in any order.
InitRegistry == Constructed(DefaultMaxConcurrentAgents)

NextRegistry ==
    \/ \E in \in InitializeInputs :
          Initialize(in.config, in.minimax_api_key)
    \/ \E agent \in RegistryInputs : RegisterAgent(agent)
    \/ \E agent_id \in RegistryIds : GetAgent(agent_id)

SpecRegistry == InitRegistry /\ [][NextRegistry]_vars

\* Spawns served by a stub provider that returns its input, or by a backend
\* that returns a text of its own; texts are sequences of pieces.
EchoRequests ==
    [agent_type : {"echo", "thought-processor"},
     prompt : {Lit("ping"), Lit("p1")}]

\* what generate can return for the call of execution e
EchoTexts(e) ==
    IF e \in 1..Len(tasks)
    THEN {tasks[e].full_prompt, <<Lit("r1")>>}
    ELSE {}

InitEcho == Constructed(DefaultMaxConcurrentAgents)

NextEcho ==
    \/ \E in \in InitializeInputs :
          /\ Startup /\ in.config = "missing"
          /\ Initialize(in.config, in.minimax_api_key)
    \/ \E agent \in RegisterInputs : Startup /\ RegisterAgent(agent)
    \/ \E req \in EchoRequests :
          SpawnAgent(req) /\ Len(records') <= EchoExec
    \/ \E e \in 1..EchoExec : \E response \in EchoTexts(e) :
          GenerateReturns(e, response)
    \/ \E e \in 1..EchoExec, msg \in BackendErrors :
          GenerateRaises(e, msg)

SpecEcho == InitEcho /\ [][NextEcho]_vars

\* Spawns whose backend returns any text of up to MaxLines lines, with and
\* without code fences.
ParseTexts == UNION { [1..n -> ParseLines] : n \in 1..MaxLines }

ParseRequests ==
    [agent_type : {"thought-processor", "code-generator"},
     prompt : {Lit("p1")}]

InitParse == Constructed(DefaultMaxConcurrentAgents)

NextParse ==
    \/ \E in \in InitializeInputs :
          /\ Startup /\ agents = EmptyMap /\ in.config = "missing"
          /\ Initialize(in.config, in.minimax_api_key)
    \/ \E req \in ParseRequests :
          SpawnAgent(req) /\ Len(records') <= ParseExec
    \/ \E e \in 1..ParseExec, response \in ParseTexts :
          GenerateReturns(e, response)
    \/ \E e \in 1..ParseExec, msg \in BackendErrors :
          GenerateRaises(e, msg)
    \/ \E e \in 1..ParseExec, response \in ParseTexts, msg \in LogErrors :
          GenerateReturnsLogRaises(e, response, msg)

SpecParse == InitParse /\ [][NextParse]_vars

\* The response cache alone: generate calls of the Ollama provider in a
\* process with or without REDIS_URL, an InMemoryTTLCache used directly, and
\* the clock.
InitCache ==
    \E redis_url \in BOOLEAN :
        ConstructedIn(DefaultMaxConcurrentAgents, redis_url)

NextCache ==
    \/ \E prompt \in CachePrompts, text \in OllamaTexts :
          OllamaGenerate(prompt, text)
    \/ \E prompt \in CachePrompts, msg \in BackendErrors :
          OllamaGenerateRaises(prompt, msg)
    \/ \E key \in CacheKeys, value \in OllamaTexts : CacheSet(key, value)
    \/ \E key \in CacheKeys : CacheGet(key)
    \/ Elapse /\ now' <= CacheTicks * CacheStep

SpecCache == InitCache /\ [][NextCache]_vars

(* ------------------------------- claims ------------------------------- *)
Executions == 1..Len(records)
Terminal == {"completed", "failed", "stopped"}

\* C1: when a spawn_agent call that was admitted has returned, its record is
\* COMPLETED or FAILED, never IDLE, STARTING or RUNNING
C1_ResolvedIsCompletedOrFailed ==
    \A e \in Executions :
        tasks[e].pc = "returned" => records[e].status \in {"completed", "failed"}

\* a call that returned after generate answered, and one after it raised
C1_Witness ==
    /\ \E e \in Executions :
          /\ tasks[e].pc = "returned"
          /\ tasks[e].backend \in { Some([kind |-> "text", value |-> r]) :
                                      r \in Responses }
    /\ \E e \in Executions :
          /\ tasks[e].pc = "returned"
          /\ tasks[e].backend \in { Some([kind |-> "raise", value |-> m]) :
                                      m \in BackendErrors }

\* C3: once a record is COMPLETED, FAILED or STOPPED no step changes its
\* status, result or error
C3_TerminalIsFrozen ==
    [][\A e \in Executions :
          records[e].status \in Terminal =>
             /\ records'[e].status = records[e].status
             /\ records'[e].result = records[e].result
             /\ records'[e].error = records[e].error]_vars

\* C8: RUNNING has start_time set and end_time unset; COMPLETED, FAILED and
\* STOPPED have both set (start_time is set by the constructor of the record)
C8_Timestamps ==
    \A e \in Executions :
        /\ records[e].status = "running" => records[e].end_time = None
        /\ records[e].status \in Terminal => IsSome(records[e].end_time)

\* C9: a spawn_agent call that raises for an unknown agent type or for
\* capacity creates no record and no metrics entry, and changes none
C9_RejectedSpawnChangesNothing ==
    [][(raised' # None /\ TheValue(raised') \in AdmissionErrors) =>
          /\ records' = records
          /\ tasks' = tasks
          /\ spawned_agents' = spawned_agents
          /\ supervision_metrics' = supervision_metrics
      ]_vars

\* a call rejected for capacity while the store holds as many RUNNING records
\* as the ceiling allows
C9_Witness ==
    /\ raised = Some("capacity")
    /\ ActiveCount(Cur) >= max_concurrent_agents
    /\ Len(records) >= max_concurrent_agents

\* C10: an exception from resolving the provider or from generate stays
\* inside spawn_agent: the call returns, the record is FAILED, its error is
\* the exception's message
C10_BackendErrorIsCaptured ==
    [][\A e \in 1..Len(records') :
          LET returns == /\ tasks'[e].pc = "returned"
                         /\ (e \in Executions => tasks[e].pc # "returned")
              b == tasks'[e].backend
          IN  (returns /\ IsSome(b) /\ TheValue(b).kind = "raise") =>
                 /\ records'[e].status = "failed"
                 /\ records'[e].error = Some(TheValue(b).value)
                 /\ raised' # Some(TheValue(b).value)
      ]_vars

\* a call that returned after generate raised, and one for which no provider
\* resolved
C10_Witness ==
    \E e \in Executions :
        /\ tasks[e].pc = "returned"
        /\ tasks[e].backend # None
        /\ TheValue(tasks[e].backend).kind = "raise"
        /\ TheValue(tasks[e].backend).value \in BackendErrors
        /\ records[e].status = "failed"

\* the backend call of records[e], made at clock 0 under a running
\* supervision loop, is still pending
HungCall(e) ==
    /\ e \in Executions
    /\ tasks[e].pc = "generate"
    /\ records[e].start_time = 0
    /\ supervision_running

\* the clock reading by which the sweep has found a heartbeat made at clock
\* 0 stale more than MissedHeartbeatLimit times: the sweeps of the first
\* 2 * heartbeat_interval seconds find it fresh
ReclaimDeadline ==
    2 * heartbeat_interval + (MissedHeartbeatLimit + 1) * SupervisionSleep

\* C7: an execution whose backend call never returns and never raises is
\* FAILED with the missed-heartbeats error once more than 3 sweeps have found
\* its heartbeat stale, by the sweep alone
C7_HungCallIsReclaimed ==
    \A e \in Executions :
        (HungCall(e) /\ now >= ReclaimDeadline /\ ~sweep_due) =>
            /\ records[e].status = "failed"
            /\ records[e].error = Some(HealthCheckError)

(* the records a run of execute_workflow or a spawn_multiple_agents call owns *)
OwnedBy(kind, r) ==
    { e \in Executions : tasks[e].owner.kind = kind /\ tasks[e].owner.of = r }

RunSteps(r) == workflows[runs[r].workflow_id].steps

\* C2: the records that are RUNNING never outnumber the ceiling, and when a
\* spawn_multiple_agents call has started more tasks for registered agent
\* types than the ceiling, none of which has got an answer, one of them
\* raised the capacity error
C2_RunningWithinCeiling ==
    /\ Cardinality({ e \in Executions : records[e].status = "running" })
          <= max_concurrent_agents
    /\ \A g \in 1..Len(groups) :
          LET slots == groups[g].slots
              started == { j \in 1..Len(slots) :
                             /\ slots[j].kind # "pending"
                             /\ groups[g].requests[j].agent_type \in DOMAIN agents }
          IN  (/\ Cardinality(started) > max_concurrent_agents
               /\ \A j \in started : slots[j].kind # "cancelled"
               /\ \A j \in started :
                     slots[j].kind = "exec" =>
                        /\ tasks[slots[j].exec].pc = "generate"
                        /\ records[slots[j].exec].status = "running") =>
                 \E j \in started :
                    slots[j].kind = "raised" /\ slots[j].error = "capacity"

\* C4: the records of one run are its steps in declared order, at most one
\* of them is in flight, every dependency of a spawned step is among the
\* results its prompt carries, and the prompt of a step carries the recorded
\* result of every earlier step of the run
C4_WorkflowOrdering ==
    \A r \in 1..Len(runs) :
        LET owned == OwnedBy("workflow", r)
            slot(e) == tasks[e].owner.slot
        IN  /\ { slot(e) : e \in owned } = 1..Cardinality(owned)
            /\ \A e1, e2 \in owned : e1 < e2 => slot(e1) < slot(e2)
            /\ Cardinality({ e \in owned : tasks[e].pc # "returned" }) <= 1
            /\ \A e \in owned :
                  LET step == RunSteps(r)[slot(e)]
                      context == records[e].prompt.context
                  IN  /\ records[e].agent_type = step.agent
                      /\ records[e].prompt.text = step.prompt
                      /\ \A d \in 1..Len(step.dependencies) :
                            \E i \in 1..Len(context) :
                               context[i].sid = step.dependencies[d]
                      /\ Len(context) = slot(e) - 1
                      /\ \A j \in 1..(slot(e) - 1) :
                            /\ context[j].sid = RunSteps(r)[j].id
                            /\ context[j] = runs[r].step_results[j]
                            /\ IsSome(context[j].res)
                            /\ \E f \in owned :
                                  /\ slot(f) = j /\ f < e
                                  /\ tasks[f].pc = "returned"
                                  /\ TheValue(context[j].res).raw_response =
                                        TheValue(tasks[f].backend).value

\* the third step of A -> B -> C has been spawned
C4_Witness ==
    \E r \in 1..Len(runs) :
        /\ runs[r].workflow_id = "chain"
        /\ \E e \in OwnedBy("workflow", r) :
              tasks[e].owner.slot = 3 /\ Len(records[e].prompt.context) = 2

\* C5: in the step in which a workflow step's spawn_agent call returns a
\* FAILED record, execute_workflow spawns nothing, marks the workflow failed
\* and returns status failed with the failure message and the results of all
\* steps run, the failed one last; a run that has returned spawns nothing
C5_FailedStepAbortsWorkflow ==
    [][\A e \in Executions :
          LET r == tasks[e].owner.of
              step == RunSteps(r)[tasks[e].owner.slot]
              ret == TheValue(runs'[r].ret)
          IN  (/\ tasks[e].owner.kind = "workflow"
               /\ tasks[e].pc # "returned" /\ tasks'[e].pc = "returned"
               /\ records'[e].status = "failed") =>
                 /\ Len(records') = Len(records)
                 /\ workflows'[runs[r].workflow_id].status = "failed"
                 /\ runs'[r].pc = "returned"
                 /\ ret.status = "failed"
                 /\ ret.error = Some(StepFailedError(step, records'[e]))
                 /\ Len(ret.results) = tasks[e].owner.slot
                 /\ \A j \in 1..Len(ret.results) :
                       /\ ret.results[j].step_id = RunSteps(r)[j].id
                       /\ ret.results[j].status =
                             IF j = Len(ret.results) THEN "failed"
                             ELSE "completed"
                 /\ \A f \in 1..Len(records') :
                       (tasks'[f].owner.kind = "workflow" /\ tasks'[f].owner.of = r)
                          => tasks'[f].owner.slot <= tasks[e].owner.slot
      ]_vars

\* a run of A -> B -> C that returned failed after its second step failed
C5_Witness ==
    \E r \in 1..Len(runs) :
        /\ runs[r].pc = "returned"
        /\ IsSome(runs[r].ret)
        /\ TheValue(runs[r].ret).status = "failed"
        /\ Len(TheValue(runs[r].ret).results) = 2
        /\ TheValue(runs[r].ret).results[2].status = "failed"
        /\ TheValue(runs[r].ret).results[1].status = "completed"

\* C6: when spawn_multiple_agents returns with no branch cancelled, the list
\* it returns holds one record for every request that neither raised nor
\* left its record FAILED, and every record in it is COMPLETED
C6_ReturnsTheSuccessfulRecords ==
    [][\A g \in 1..Len(groups) :
          LET slots == groups[g].slots
              failures == { j \in 1..Len(slots) :
                              \/ slots[j].kind = "raised"
                              \/ /\ slots[j].kind = "exec"
                                 /\ records[slots[j].exec].status = "failed" }
              ret == TheValue(groups'[g].ret)
          IN  (/\ groups[g].pc = "gathering" /\ groups'[g].pc = "returned"
               /\ \A j \in 1..Len(slots) :
                     groups'[g].slots[j].kind # "cancelled") =>
                 /\ Len(ret) = Len(slots) - Cardinality(failures)
                 /\ \A i \in 1..Len(ret) : records[ret[i]].status = "completed"
      ]_vars

\* C11: at most SemaphorePermits generate calls are in flight, whatever the
\* number of RUNNING records, and the pool is smaller than the default
\* ceiling; every other execution that has not got its answer is queued at
\* the semaphore
C11_PermitPool ==
    /\ SemaphorePermits < DefaultMaxConcurrentAgents
    /\ Cardinality({ e \in Executions : tasks[e].pc = "generate" })
          <= SemaphorePermits
    /\ \A e \in Executions :
          tasks[e].pc \in {"generate", "sem_wait", "returned"}

\* four records are RUNNING: three calls in flight, the fourth execution waits
C11_Witness ==
    /\ Cardinality({ e \in Executions : records[e].status = "running" })
          > SemaphorePermits
    /\ PermitsHeld(Cur) = SemaphorePermits
    /\ SemWaiters(Cur) # {}

\* C12: the id of an admitted spawn is new to the store: the spawn adds one
\* entry to the execution store and one to the metrics store and replaces
\* none, also for a repeated request within one clock second
C12_FreshExecutionId ==
    [][Len(records') > Len(records) =>
          LET id == records'[Len(records')].id IN
          /\ id \notin DOMAIN spawned_agents
          /\ id \notin DOMAIN supervision_metrics
          /\ \A f \in Executions : records[f].id # id
          /\ \A i \in DOMAIN spawned_agents :
                spawned_agents'[i] = spawned_agents[i]
      ]_vars

\* C13: the record of a spawn_agent task that was cancelled while its
\* backend call was pending is in a terminal state, not RUNNING
C13_CancelledIsTerminal ==
    \A e \in Executions :
        tasks[e].pc = "cancelled" => records[e].status \in Terminal

\* C14: a branch of spawn_multiple_agents that raises or is cancelled leaves
\* the other branches as they are, and when the call returns no exception
\* reaches the caller and every branch that neither raised nor was cancelled
\* has returned its record, COMPLETED or FAILED
C14_BranchesAreIndependent ==
    [][\A g \in 1..Len(groups) :
          LET slots == groups[g].slots
              slots2 == groups'[g].slots
              Stopped(sl) == sl.kind \in {"raised", "cancelled"}
          IN  /\ (groups[g].pc = "gathering" /\ groups'[g].pc = "gathering") =>
                    \A j \in 1..Len(slots) :
                       (~Stopped(slots[j]) /\ Stopped(slots2[j])) =>
                          \A k \in 1..Len(slots) :
                             k # j =>
                                /\ slots2[k] = slots[k]
                                /\ slots[k].kind = "exec" =>
                                      /\ tasks'[slots[k].exec] = tasks[slots[k].exec]
                                      /\ records'[slots[k].exec] =
                                            records[slots[k].exec]
              /\ (groups[g].pc = "gathering" /\ groups'[g].pc = "returned") =>
                    /\ raised' = None
                    /\ IsSome(groups'[g].ret)
                    /\ \A j \in 1..Len(slots2) :
                          \/ Stopped(slots2[j])
                          \/ /\ slots2[j].kind = "exec"
                             /\ tasks'[slots2[j].exec].pc = "returned"
                             /\ records'[slots2[j].exec].status
                                   \in {"completed", "failed"}
      ]_vars

\* a call that returned two records although one branch raised and another
\* was cancelled
C14_Witness ==
    \E g \in 1..Len(groups) :
        /\ groups[g].pc = "returned"
        /\ \E j \in 1..Len(groups[g].slots) : groups[g].slots[j].kind = "raised"
        /\ \E j \in 1..Len(groups[g].slots) :
              /\ groups[g].slots[j].kind = "cancelled"
              /\ groups[g].slots[j].exec > 0
        /\ \E j \in 1..Len(groups[g].slots) :
              /\ groups[g].slots[j].kind = "exec"
              /\ records[groups[g].slots[j].exec].status = "completed"

\* C15: when generate returned text, the spawn_agent call returns the record
\* COMPLETED with the parsed result, whatever the style learner's logging
\* call did
C15_LoggingNeverChangesOutcome ==
    [][\A e \in Executions :
          LET b == tasks'[e].backend IN
          (/\ tasks[e].pc # "returned" /\ tasks'[e].pc = "returned"
           /\ IsSome(b) /\ TheValue(b).kind = "text") =>
              /\ records'[e].status = "completed"
              /\ IsSome(records'[e].result)
              /\ TheValue(records'[e].result).raw_response = TheValue(b).value
      ]_vars

\* C16: the llm_provider of a COMPLETED record names the provider whose
\* generate served the execution; an execution whose model names a provider
\* that is not registered fails or records the provider that served it
C16_ProviderUsedIsTheServer ==
    \A e \in Executions :
        records[e].status = "completed" =>
            records[e].llm_provider = tasks[e].provider

\* C17: no step is spawned while one of its dependencies has no stored
\* result in the run; the run that meets such a step returns failed with the
\* dependency error, having spawned neither that step nor a later one, marks
\* the workflow failed and returns the results of the steps it ran
C17_UnmetDependencyAborts ==
    [][\A r \in 1..Len(runs') :
          LET run == runs'[r]
              steps == workflows'[run.workflow_id].steps
              owned == { e \in 1..Len(records') :
                           /\ tasks'[e].owner.kind = "workflow"
                           /\ tasks'[e].owner.of = r }
              Stored(k) == { steps[j].id : j \in 1..(k - 1) }
              Deps(k) == { steps[k].dependencies[d] :
                             d \in 1..Len(steps[k].dependencies) }
              returns == /\ run.pc = "returned"
                         /\ (r \in 1..Len(runs) => runs[r].pc # "returned")
              ret == TheValue(run.ret)
          IN  /\ \A e \in owned : Deps(tasks'[e].owner.slot)
                                     \subseteq Stored(tasks'[e].owner.slot)
              /\ (/\ returns
                  /\ \A e \in owned : records'[e].status = "completed"
                  /\ Cardinality(owned) < Len(steps)
                  /\ ~(Deps(Cardinality(owned) + 1)
                          \subseteq Stored(Cardinality(owned) + 1))) =>
                    /\ ret.status = "failed"
                    /\ IsSome(ret.error)
                    /\ TheValue(ret.error).kind = "dependency"
                    /\ TheValue(ret.error).step
                          \in Deps(Cardinality(owned) + 1)
                                 \ Stored(Cardinality(owned) + 1)
                    /\ workflows'[run.workflow_id].status = "failed"
                    /\ Len(ret.results) = Cardinality(owned)
                    /\ \A j \in 1..Len(ret.results) :
                          /\ ret.results[j].step_id = steps[j].id
                          /\ ret.results[j].status = "completed"
                          /\ IsSome(ret.results[j].result)
      ]_vars

\* a run of "broken" that returned the dependency error and the result of
\* its first step
C17_Witness ==
    \E r \in 1..Len(runs) :
        /\ runs[r].workflow_id = "broken"
        /\ runs[r].pc = "returned"
        /\ TheValue(TheValue(runs[r].ret).error).kind = "dependency"
        /\ Len(TheValue(runs[r].ret).results) = 1
        /\ Cardinality(OwnedBy("workflow", r)) = 1

RECURSIVE SumSeq(_)
SumSeq(seq) == IF seq = <<>> THEN 0 ELSE seq[1] + SumSeq(Tail(seq))

\* C18: execute_workflow returns status completed exactly when it ran every
\* step and every step's record is COMPLETED; it then has marked the workflow
\* completed and returns the sum of the records' durations; when it returns
\* failed it has marked the workflow failed
C18_CompletedIffEveryStepCompleted ==
    [][\A r \in 1..Len(runs') :
          LET run == runs'[r]
              steps == workflows'[run.workflow_id].steps
              owned == { e \in 1..Len(records') :
                           /\ tasks'[e].owner.kind = "workflow"
                           /\ tasks'[e].owner.of = r }
              ExecOf(j) == CHOOSE e \in owned : tasks'[e].owner.slot = j
              every == /\ { tasks'[e].owner.slot : e \in owned } = 1..Len(steps)
                       /\ \A e \in owned : /\ tasks'[e].pc = "returned"
                                           /\ records'[e].status = "completed"
              ret == TheValue(run.ret)
          IN  (/\ run.pc = "returned"
               /\ (r \in 1..Len(runs) => runs[r].pc # "returned")) =>
                 /\ ret.status \in {"completed", "failed"}
                 /\ ret.status = "completed" <=> every
                 /\ workflows'[run.workflow_id].status = ret.status
                 /\ (\A q \in 1..Len(runs') :
                        runs'[q].workflow_id = run.workflow_id =>
                           runs'[q].pc = "returned") =>
                       workflows'[run.workflow_id].status
                          \in {"completed", "failed"}
                 /\ ret.status = "completed" =>
                       /\ Len(ret.results) = Len(steps)
                       /\ ret.duration_ms =
                             Some(SumSeq([j \in 1..Len(steps) |->
                                    TheValue(records'[ExecOf(j)].duration_ms)]))
      ]_vars

\* a run of A -> B -> C that returned completed, its steps having taken time
C18_Witness ==
    \E r \in 1..Len(runs) :
        /\ runs[r].workflow_id = "chain"
        /\ runs[r].pc = "returned"
        /\ TheValue(runs[r].ret).status = "completed"
        /\ Len(TheValue(runs[r].ret).results) = 3
        /\ TheValue(TheValue(runs[r].ret).duration_ms) > 0

\* C19: execute_workflow with an id that is not registered raises the
\* not-found error, spawns no execution and changes no workflow
C19_UnknownWorkflowChangesNothing ==
    [][raised' = Some("workflow_not_found") =>
          /\ records' = records
          /\ tasks' = tasks
          /\ spawned_agents' = spawned_agents
          /\ supervision_metrics' = supervision_metrics
          /\ workflows' = workflows
          /\ runs' = runs
      ]_vars

\* the call was refused while another workflow was loaded and idle and a run
\* was in progress
C19_Witness ==
    /\ raised = Some("workflow_not_found")
    /\ \E w \in DOMAIN workflows : workflows[w].status = "idle"
    /\ \E r \in 1..Len(runs) : runs[r].pc = "awaiting"

\* C20: shutdown sets every RUNNING record to STOPPED and changes nothing
\* else in any record, and a record becomes STOPPED only from RUNNING and
\* only in a shutdown
C20_ShutdownStopsRunning ==
    [][/\ Shutdown =>
             \A e \in Executions :
                records'[e] = IF records[e].status = "running"
                              THEN [records[e] EXCEPT !.status = "stopped"]
                              ELSE records[e]
       /\ \A e \in Executions :
             (records'[e].status = "stopped" /\ records[e].status # "stopped")
                => (records[e].status = "running" /\ Shutdown)
      ]_vars

\* C21: a sweep counts a missed heartbeat for a metrics entry, and marks it
\* degraded or unhealthy, only when the entry's heartbeat is older than twice
\* its interval; it sets a record FAILED only when the count has passed
\* MissedHeartbeatLimit; a record whose spawn_agent call has returned is not
\* touched by the sweep
C21_SweepThresholds ==
    [][SupervisionSweep =>
          /\ \A id \in DOMAIN supervision_metrics :
                LET m == supervision_metrics[id]
                    m2 == supervision_metrics'[id]
                IN  /\ m2 # m =>
                          /\ now - m.last_heartbeat > 2 * m.heartbeat_interval
                          /\ m2.missed_heartbeats = m.missed_heartbeats + 1
                          /\ m2.health_status =
                                IF m2.missed_heartbeats > MissedHeartbeatLimit
                                THEN "unhealthy" ELSE "degraded"
                    /\ m2.health_status = "unhealthy" /\ m.health_status # "unhealthy"
                          => m2.missed_heartbeats > MissedHeartbeatLimit
          /\ \A e \in Executions :
                records'[e] # records[e] =>
                   /\ records'[e] = [records[e] EXCEPT
                                        !.status = "failed",
                                        !.error = Some(HealthCheckError)]
                   /\ records[e].id \in DOMAIN supervision_metrics'
                   /\ supervision_metrics'[records[e].id].missed_heartbeats
                         > MissedHeartbeatLimit
                   /\ now - records[e].start_time > 2 * heartbeat_interval
                   /\ tasks[e].pc # "returned"
      ]_vars

\* a record the sweep set FAILED at its fourth stale sweep
C21_Witness ==
    \E e \in Executions :
        /\ records[e].status = "failed"
        /\ records[e].error = Some(HealthCheckError)
        /\ tasks[e].pc = "generate"
        /\ supervision_metrics[records[e].id].missed_heartbeats
              = MissedHeartbeatLimit + 1

\* C22: a sweep leaves alone the metrics entry and the record of every
\* execution whose record is no longer RUNNING (COMPLETED, FAILED or STOPPED)
C22_SweepSkipsSettledRecords ==
    [][SupervisionSweep =>
          \A id \in DOMAIN spawned_agents \cap DOMAIN supervision_metrics :
              records[spawned_agents[id]].status # "running" =>
                 /\ supervision_metrics'[id] = supervision_metrics[id]
                 /\ records'[spawned_agents[id]] = records[spawned_agents[id]]
      ]_vars

\* C23: the metrics entry of a stored record carries the record's status
C23_MetricsStatusMirrorsRecord ==
    \A id \in DOMAIN spawned_agents \cap DOMAIN supervision_metrics :
        supervision_metrics[id].status = records[spawned_agents[id]].status

\* C24: the execution store and the supervision store have the same keys,
\* every execution has a metrics entry under its id whose heartbeat is the
\* time of its spawn, and no two executions share an entry
C24_OneMetricsEntryPerExecution ==
    /\ DOMAIN spawned_agents = DOMAIN supervision_metrics
    /\ \A id \in DOMAIN supervision_metrics :
          /\ supervision_metrics[id].agent_id = id
          /\ supervision_metrics[id].last_heartbeat
                = records[spawned_agents[id]].start_time
    /\ \A e \in Executions :
          /\ records[e].id \in DOMAIN supervision_metrics
          /\ \A f \in Executions : records[f].id = records[e].id => f = e

\* C25: when spawn_agent returns a FAILED record the metrics entry's
\* tasks_failed grows by one and its health is unhealthy, when it returns a
\* COMPLETED record tasks_completed grows by one, and no metrics entry ever
\* counts more than one finished task
C25_OneOutcomeCounted ==
    [][/\ \A e \in Executions :
             (tasks[e].pc # "returned" /\ tasks'[e].pc = "returned") =>
                LET id == records[e].id
                    m  == supervision_metrics[id]
                    m2 == supervision_metrics'[id]
                IN  /\ records'[e].status = "failed" =>
                          /\ m2.tasks_failed = m.tasks_failed + 1
                          /\ m2.tasks_completed = m.tasks_completed
                          /\ m2.health_status = "unhealthy"
                    /\ records'[e].status = "completed" =>
                          /\ m2.tasks_completed = m.tasks_completed + 1
                          /\ m2.tasks_failed = m.tasks_failed
       /\ \A id \in DOMAIN supervision_metrics' :
             supervision_metrics'[id].tasks_completed
                + supervision_metrics'[id].tasks_failed <= 1
      ]_vars

\* C26: a COMPLETED record has a result and no error, a FAILED record has an
\* error, and both have a duration
C26_TerminalRecordCarriesOutcome ==
    \A e \in Executions :
        /\ records[e].status = "completed" =>
              /\ IsSome(records[e].result)
              /\ ~IsSome(records[e].error)
              /\ IsSome(records[e].duration_ms)
        /\ records[e].status = "failed" =>
              /\ IsSome(records[e].error)
              /\ IsSome(records[e].duration_ms)

\* C27: get_metrics and get_supervision_metrics return a value without
\* raising and change none of the stores, and they can be called in every
\* state, also between the steps of pending spawns and sweeps
C27_ReportsAreReadOnly ==
    /\ [](ENABLED GetMetrics)
    /\ [](\A agent_id \in SupervisionQueries :
             ENABLED GetSupervisionMetrics(agent_id))
    /\ [][(GetMetrics \/ \E agent_id \in SupervisionQueries :
                             GetSupervisionMetrics(agent_id)) =>
             /\ UNCHANGED <<records, tasks, spawned_agents,
                            supervision_metrics, workflows, runs, agents>>
             /\ reply' # None
             /\ raised' = None
       ]_vars

\* a report taken while one call is pending, one record has returned and a
\* sweep has counted a missed heartbeat
C27_Witness ==
    /\ IsSome(reply)
    /\ TheValue(reply).call = "get_metrics"
    /\ TheValue(reply).report.agents.active >= 1
    /\ \E e, f \in Executions :
          tasks[e].pc = "generate" /\ tasks[f].pc = "returned"
    /\ \E id \in DOMAIN supervision_metrics :
          supervision_metrics[id].missed_heartbeats >= 1

\* the executions get_metrics has just reported on, none when the latest
\* step was not a get_metrics call
MetricsTaken == IsSome(reply) /\ TheValue(reply).call = "get_metrics"

\* the records the execution store holds in some status
Tracked(status) ==
    {e \in Executions : /\ spawned_agents[records[e].id] = e
                        /\ records[e].status = status}

\* C28: get_metrics reports the number of tracked records as total, the
\* numbers of RUNNING, COMPLETED and FAILED ones as active, completed and
\* failed, with total = active + completed + failed + idle; after one
\* execution completed and one failed it reports completed 1, failed 1, total 2
C28_AgentCounts ==
    MetricsTaken =>
       LET a == TheValue(reply).report.agents IN
       /\ a.total = Cardinality(DOMAIN spawned_agents)
       /\ a.active = Cardinality(Tracked("running"))
       /\ a.completed = Cardinality(Tracked("completed"))
       /\ a.failed = Cardinality(Tracked("failed"))
       /\ a.total = a.active + a.completed + a.failed + a.idle
       /\ (/\ Len(records) = 2
           /\ \E e, f \in Executions : /\ records[e].status = "completed"
                                       /\ records[f].status = "failed")
             => a.completed = 1 /\ a.failed = 1 /\ a.total = 2

\* the tracked records that are terminal
TrackedTerminal == UNION {Tracked(status) : status \in Terminal}

\* C29: get_metrics reports as total duration the sum of duration_ms over
\* the terminal executions and as average that total divided by the number
\* of terminal executions, 0 when there is none
C29_DurationTotals ==
    MetricsTaken =>
       LET p == TheValue(reply).report.performance
           n == Cardinality(TrackedTerminal)
           total ==
              SumSeq([e \in 1..Len(records) |->
                         IF e \in TrackedTerminal /\ IsSome(records[e].duration_ms)
                         THEN TheValue(records[e].duration_ms) ELSE 0])
       IN  /\ p.total_duration_ms = total
           /\ IF n = 0
              THEN p.avg_duration_ms.num = 0
              ELSE p.avg_duration_ms.num * n = total * p.avg_duration_ms.den

\* C30: register_agent stores the definition under its id, replacing the
\* one stored there and touching no other id, so that registering a stored
\* definition again changes nothing; get_agent returns the stored definition
\* or None and leaves the registry as it is
C30_RegistryLastWriteWins ==
    [][/\ \A agent \in RegistryInputs :
             RegisterAgent(agent) =>
                /\ DOMAIN agents' = DOMAIN agents \cup {agent.id}
                /\ agents'[agent.id] = agent
                /\ \A id \in DOMAIN agents \ {agent.id} : agents'[id] = agents[id]
                /\ (agent.id \in DOMAIN agents /\ agents[agent.id] = agent)
                      => agents' = agents
       /\ \A agent_id \in RegistryIds :
             GetAgent(agent_id) =>
                /\ agents' = agents
                /\ TheValue(reply').entry =
                      IF \E id \in DOMAIN agents : id = agent_id
                      THEN agents[agent_id] ELSE None
      ]_vars

\* a definition registered over the one initialize() stored under the same
\* id, next to another id, and found by get_agent
C30_Witness ==
    /\ "code-generator" \in DOMAIN agents
    /\ "thought-processor" \in DOMAIN agents
    /\ agents["thought-processor"].model = <<"llama3">>
    /\ IsSome(reply)
    /\ TheValue(reply).call = "get_agent"
    /\ TheValue(reply).entry = agents["thought-processor"]

\* C31: once initialize() has run the registry holds at least one agent
\* definition, whether the configuration file was missing, unparseable or
\* parsed without error
C31_RegistryNeverEmpty ==
    supervision_running => agents # EmptyMap

\* a text holds a piece
Contains(text, piece) == \E i \in 1..Len(text) : text[i] = piece

\* the backend call of execution e returned this text
Returned(e, text) ==
    tasks[e].backend = Some([kind |-> "text", value |-> text])

\* C32: the prompt sent to the backend is the definition's instructions,
\* "Task: " with the request's prompt, and the response contract; a COMPLETED
\* record's raw_response is the text the backend returned; with a backend
\* that returns its input the spawn ends COMPLETED and the raw_response
\* contains the request's prompt
C32_RawResponseIsBackendText ==
    \A e \in Executions :
        /\ tasks[e].full_prompt =
              << Lit(tasks[e].agent_def.instructions_prompt), Lit("Task: "),
                 records[e].prompt, Lit(ResponseContract) >>
        /\ \A text \in EchoTexts(e) :
              Returned(e, text) =>
                 /\ records[e].status = "completed"
                 /\ TheValue(records[e].result).raw_response = text
        /\ Returned(e, tasks[e].full_prompt) =>
              Contains(TheValue(records[e].result).raw_response,
                       records[e].prompt)

\* spawn of "echo" with the prompt "ping", served by the echoing backend
C32_Witness ==
    \E e \in Executions :
        /\ records[e].agent_type = "echo"
        /\ records[e].prompt = Lit("ping")
        /\ Returned(e, tasks[e].full_prompt)
        /\ records[e].status = "completed"
        /\ Contains(TheValue(records[e].result).raw_response, Lit("ping"))

\* the latest set for the key is still within its time to live
WithinTTL(key) ==
    /\ key \in DOMAIN cache.last_set
    /\ now <= cache.last_set[key].at + cache.last_set[key].ttl_seconds

FencePositions(text) == {i \in 1..Len(text) : text[i] \in FenceLines}
FenceAt(text, n) ==
    CHOOSE i \in FencePositions(text) :
        Cardinality({j \in FencePositions(text) : j <= i}) = n

\* C34: whenever generate returned a text the execution ends COMPLETED,
\* whatever the text and the agent type; the code extracted for
\* "code-generator" has one block for each closed pair of fence lines, holding
\* the lines between them, and nothing for an unterminated last block
C34_ParsingNeverFails ==
    \A e \in Executions :
        (/\ IsSome(tasks[e].backend)
         /\ TheValue(tasks[e].backend).kind = "text") =>
            LET text == TheValue(tasks[e].backend).value
                pairs == Cardinality(FencePositions(text)) \div 2
            IN  /\ records[e].status = "completed"
                /\ IsSome(records[e].result)
                /\ records[e].agent_type = "code-generator" =>
                      LET code == TheValue(records[e].result).generated_code
                      IN  /\ code.count = pairs
                          /\ Len(code.blocks) = pairs
                          /\ \A k \in 1..pairs :
                                code.blocks[k] =
                                   SubSeq(text, FenceAt(text, 2 * k - 1) + 1,
                                          FenceAt(text, 2 * k) - 1)

\* C35: a run of execute_workflow spawns each step at most once, also a
\* failed step with retries declared, and spawns nothing after it returned;
\* a step's record leaves RUNNING only when its own backend call returns or
\* raises, by a sweep or by shutdown, never because its timeout has passed
C35_StepsRunOnce ==
    [][\A r \in 1..Len(runs') :
          LET owned == { e \in 1..Len(records') :
                            /\ tasks'[e].owner.kind = "workflow"
                            /\ tasks'[e].owner.of = r }
          IN  /\ \A e, f \in owned :
                    tasks'[e].owner.slot = tasks'[f].owner.slot => e = f
              /\ (r <= Len(runs) /\ runs[r].pc = "returned") =>
                    owned \subseteq Executions
              /\ \A e \in owned \cap Executions :
                    (records[e].status = "running"
                       /\ records'[e].status # "running") =>
                       \/ tasks[e].pc # "returned" /\ tasks'[e].pc = "returned"
                       \/ SupervisionSweep
                       \/ Shutdown
      ]_vars

\* a step with retries declared that ran past its timeout, then failed, and
\* whose run returned without spawning it again
C35_Witness ==
    \E r \in 1..Len(runs) : \E e \in OwnedBy("workflow", r) :
        LET step == RunSteps(r)[tasks[e].owner.slot] IN
        /\ step.retries > 0
        /\ records[e].status = "failed"
        /\ IsSome(records[e].end_time)
        /\ (TheValue(records[e].end_time) - records[e].start_time) * 1000
              > step.timeout
        /\ runs[r].pc = "returned"

\* C36: when every backend call returns or raises, every admitted execution,
\* queued at the permit pool or holding a permit, is eventually COMPLETED or
\* FAILED
C36_AdmittedExecutionsFinish ==
    \A e \in 1..PermitsExec :
        (e \in Executions /\ tasks[e].pc \in {"sem_wait", "generate"})
           ~> (e \in Executions /\ records[e].status \in {"completed", "failed"}
                 /\ tasks[e].pc = "returned")

\* the fourth execution with a permit that a raising call gave back
C36_Witness ==
    /\ Len(records) = PermitsExec
    /\ tasks[PermitsExec].pc = "generate"
    /\ Cardinality({ e \in Executions : tasks[e].pc = "generate" })
          = SemaphorePermits
    /\ \E f \in Executions :
          /\ tasks[f].pc = "returned"
          /\ tasks[f].backend =
                Some([kind |-> "raise", value |-> "ConnectionError"])

\* C37: an execution whose record is terminal holds no permit of the pool,
\* in particular one that the sweep has set FAILED while its backend call
\* has not returned
C37_TerminalHoldsNoPermit ==
    \A e \in Executions :
        records[e].status \in Terminal => tasks[e].pc # "generate"

\* C38: while some execute_workflow run of a workflow is in progress, the
\* status of that workflow is running, also when another run of the same
\* workflow has already finished
C38_StatusRunningWhileInProgress ==
    \A r \in 1..Len(runs) :
        runs[r].pc = "awaiting" =>
            workflows[runs[r].workflow_id].status = "running"

====
